---- MODULE Spec2Model ----
(***************************************************************************)
(* Model of the node cache of acd_cli: the sync mixin (acdcli/cache/sync.py)*)
(* over the SQLite schema of acdcli/cache/schema.py.                       *)
(*                                                                         *)
(* A table with a primary key is a function from the key to the row.       *)
(* parentage is a bag of (parent, child) rows, so that the effect of       *)
(* INSERT OR IGNORE on its primary key is computed and not assumed.        *)
(* Python dicts are functions whose DOMAIN is the set of keys present.     *)
(* Foreign keys are declared by the schema but not enforced: no statement  *)
(* of the source turns PRAGMA foreign_keys on, and remove_purged deletes   *)
(* the nodes row before the rows that refer to it.                         *)
(***************************************************************************)
EXTENDS Bags, FiniteSets, Integers, Sequences, TLC

VARIABLES nodes, files, content, parentage, properties, labels,
          committed,
          node_id_to_node_cache, path_to_node_id_cache, node_cache_lock,
          now, calls, lastOp, before,
          pc, todo, cur,
          rp_purged, rp_slices, rp_chunks, rp_pc, rp_fault, rp_retried,
          user_version, schema,
          in_pc, in_script, in_step,
          in_error, in_swallowed, in_applied, in_stamps, in_start, in_v0, in_runs, in_faults,
          metadata, kv_last, kv_prev,
          ip_pc, ip_nodes, ip_partial, ip_fault

tables == <<nodes, files, content, parentage, properties, labels>>
caches == <<node_id_to_node_cache, path_to_node_id_cache>>
threadvars == <<node_cache_lock, pc, todo, cur>>
vars == <<nodes, files, content, parentage, properties, labels, committed,
          node_id_to_node_cache, path_to_node_id_cache, node_cache_lock,
          now, calls, lastOp, before, pc, todo, cur,
          rp_purged, rp_slices, rp_chunks, rp_pc, rp_fault, rp_retried,
          user_version, schema,
          in_pc, in_script, in_step,
          in_error, in_swallowed, in_applied, in_stamps, in_start, in_v0, in_runs, in_faults,
          metadata, kv_last, kv_prev,
          ip_pc, ip_nodes, ip_partial, ip_fault>>

\* the variables of the statement-level runs
purgevars == <<rp_purged, rp_slices, rp_chunks, rp_pc, rp_fault, rp_retried>>
\* the layout of the store and its stamp; the run of init
layoutvars == <<user_version, schema>>
initvars == <<in_pc, in_script, in_step, in_error, in_swallowed, in_applied,
              in_stamps, in_start, in_v0, in_runs, in_faults>>
\* the metadata table and the last call of the key-value storage
kvvars == <<metadata, kv_last, kv_prev>>
\* the run of insert_parentage
parentagevars == <<ip_pc, ip_nodes, ip_partial, ip_fault>>
extvars == <<purgevars, layoutvars, initvars, kvvars, parentagevars>>
notpurge == <<layoutvars, initvars, kvvars, parentagevars>>
notinit == <<purgevars, kvvars, parentagevars>>
notkv == <<purgevars, layoutvars, initvars, parentagevars>>
notparentage == <<purgevars, layoutvars, initvars, kvvars>>

(***************************************************************************)
(* Bounds.                                                                 *)
(***************************************************************************)
MaxCalls == 2
MaxBatch == 2

(***************************************************************************)
(* Values.                                                                 *)
(***************************************************************************)
Ids == {"a", "b", "c"}
Paths == {"/x"}
Owners == {"o"}
Keys == {"k"}
Values == {"v", "w"}
Threads == {"t1", "t2"}

None == "<None>"
EMPTY_MD5 == "d41d8cd98f00b204e9800998ecf8427e"
SLICE_LENGTH == 100
D1 == "2020-01-01T00:00:00Z"
D2 == "2020-01-02T00:00:00Z"

Min(x, y) == IF x <= y THEN x ELSE y

\* dict.get(key, default)
Get(d, k, default) == IF k \in DOMAIN d THEN d[k] ELSE default

\* `not 'name' in node or not node['name']`
NoName(node) == ("name" \notin DOMAIN node) \/ node["name"] = ""
NoRoot(node) == ("isRoot" \notin DOMAIN node) \/ ~node["isRoot"]

\* dateutil's parse of the ISO 8601 strings of the model: days since 2020-01-01
iso_date_parse(s) == CASE s = D1 -> 0
                       [] s = D2 -> 1

Without(f, S) == [x \in (DOMAIN f) \ S |-> f[x]]
Upsert(f, k, v) == [x \in (DOMAIN f) \cup {k} |-> IF x = k THEN v ELSE f[x]]
Range(s) == {s[i] : i \in DOMAIN s}
IdsOf(list_) == {list_[i]["id"] : i \in DOMAIN list_}

(***************************************************************************)
(* gen_slice: successive slices of at most `length` elements.              *)
(***************************************************************************)
\* gen_slice that stops after its first slice
gen_slice_FirstOnly(list_, length) ==
    IF list_ = <<>> THEN <<>>
    ELSE <<SubSeq(list_, 1, Min(length, Len(list_)))>>

RECURSIVE gen_slice(_, _)
gen_slice(list_, length) ==
    IF list_ = <<>> THEN <<>>
    ELSE LET k == Min(length, Len(list_))
         IN  <<SubSeq(list_, 1, k)>> \o gen_slice(SubSeq(list_, k + 1, Len(list_)), length)

(***************************************************************************)
(* The state the handlers work on, as one record.                          *)
(***************************************************************************)
State == [nodes |-> nodes, files |-> files, content |-> content,
          parentage |-> parentage, properties |-> properties, labels |-> labels,
          node_id_to_node_cache |-> node_id_to_node_cache,
          path_to_node_id_cache |-> path_to_node_id_cache]

Db(st) == [nodes |-> st.nodes, files |-> st.files, content |-> st.content,
           parentage |-> st.parentage, properties |-> st.properties,
           labels |-> st.labels]

EmptyTable == <<>>

(***************************************************************************)
(* Node: the object built by insert_folders / insert_files.                *)
(***************************************************************************)
FolderNode(f, t) ==
    [id |-> f["id"], type |-> "folder", name |-> Get(f, "name", None),
     description |-> Get(f, "description", None),
     created |-> iso_date_parse(f["createdDate"]),
     modified |-> iso_date_parse(f["modifiedDate"]),
     updated |-> t, status |-> f["status"],
     md5 |-> None, size |-> 0, version |-> 0]

FileNode(f, t) ==
    [id |-> f["id"], type |-> "file", name |-> Get(f, "name", None),
     description |-> Get(f, "description", None),
     created |-> iso_date_parse(f["createdDate"]),
     modified |-> iso_date_parse(f["modifiedDate"]),
     updated |-> t, status |-> f["status"],
     md5 |-> Get(Get(f, "contentProperties", <<>>), "md5", EMPTY_MD5),
     size |-> Get(Get(f, "contentProperties", <<>>), "size", 0),
     version |-> Get(Get(f, "contentProperties", <<>>), "version", 0)]

is_available(n) == n.status = "AVAILABLE"

(***************************************************************************)
(* Statements.                                                             *)
(***************************************************************************)

\* CacheUpdate with the eviction of an unavailable node left out
CacheUpdate_KeepStale(cache, n) ==
    IF is_available(n) THEN Upsert(cache, n.id, n)
    ELSE cache

\* the critical section under node_cache_lock of insert_folders / insert_files
CacheUpdate(cache, n) ==
    IF is_available(n) THEN Upsert(cache, n.id, n)
    ELSE Without(cache, {n.id})

NodeRow(n) == [id |-> n.id, type |-> n.type, name |-> n.name,
               description |-> n.description, created |-> n.created,
               modified |-> n.modified, updated |-> n.updated,
               status |-> n.status]

FileRow(n) == [id |-> n.id, md5 |-> n.md5, size |-> n.size, version |-> n.version]

\* INSERT OR REPLACE INTO nodes
ReplaceIntoNodes(tbl, n) == Upsert(tbl, n.id, NodeRow(n))


\* ReplaceIntoFiles that counts the content version up on every replace
ReplaceIntoFiles_Bump(tbl, n) ==
    Upsert(tbl, n.id,
           [FileRow(n) EXCEPT !.version = IF n.id \in DOMAIN tbl
                                          THEN tbl[n.id].version + 1 ELSE @])

\* INSERT OR REPLACE INTO files
ReplaceIntoFiles(tbl, n) == Upsert(tbl, n.id, FileRow(n))


\* a plain INSERT without the primary key's conflict clause
InsertOrIgnoreParentage_Dup(tbl, p, c) == tbl (+) SetToBag({<<p, c>>})

\* INSERT OR IGNORE INTO parentage VALUES (p, c)
InsertOrIgnoreParentage(tbl, p, c) ==
    IF BagIn(<<p, c>>, tbl) THEN tbl ELSE tbl (+) SetToBag({<<p, c>>})

\* DELETE FROM parentage WHERE child IN ids
DeleteParentageByChild(tbl, ids) ==
    [e \in {x \in DOMAIN tbl : x[2] \notin ids} |-> tbl[e]]

\* DELETE FROM parentage WHERE parent IN ids
DeleteParentageByParent(tbl, ids) ==
    [e \in {x \in DOMAIN tbl : x[1] \notin ids} |-> tbl[e]]

\* DELETE FROM properties WHERE id IN ids
DeletePropertiesById(tbl, ids) ==
    [e \in {x \in DOMAIN tbl : x[1] \notin ids} |-> tbl[e]]

\* DELETE FROM labels WHERE id IN ids
DeleteLabelsById(tbl, ids) == {x \in tbl : x[1] \notin ids}

(***************************************************************************)
(* remove_content, insert_content, insert_property                         *)
(***************************************************************************)
remove_content(st, node_id) ==
    [st EXCEPT !.content = Without(@, {node_id})]

insert_content(st, node_id, version, value, t) ==
    [st EXCEPT !.content = Upsert(@, node_id,
        [id |-> node_id, value |-> value, size |-> Len(value),
         version |-> version, accessed |-> t])]

insert_property(st, node_id, owner_id, key, value) ==
    [st EXCEPT !.properties = Upsert(@, <<node_id, owner_id, key>>, value)]

(***************************************************************************)
(* remove_purged                                                           *)
(***************************************************************************)

\* PurgeSlice without DELETE FROM parentage WHERE parent IN
PurgeSlice_NoParent(st, slice_) ==
    LET ids == Range(slice_)
    IN  [st EXCEPT !.nodes = Without(@, ids),
                   !.files = Without(@, ids),
                   !.content = Without(@, ids),
                   !.parentage = DeleteParentageByChild(@, ids),
                   !.properties = DeletePropertiesById(@, ids),
                   !.labels = DeleteLabelsById(@, ids)]

PurgeSlice(st, slice_) ==
    LET ids == Range(slice_)
    IN  [st EXCEPT !.nodes = Without(@, ids),
                   !.files = Without(@, ids),
                   !.content = Without(@, ids),
                   !.parentage = DeleteParentageByChild(DeleteParentageByParent(@, ids), ids),
                   !.properties = DeletePropertiesById(@, ids),
                   !.labels = DeleteLabelsById(@, ids)]

RECURSIVE PurgeSlices(_, _)
PurgeSlices(st, slices) ==
    IF slices = <<>> THEN st
    ELSE PurgeSlices(PurgeSlice(st, Head(slices)), Tail(slices))

remove_purged(st, purged) ==
    IF purged = <<>> THEN st
    ELSE PurgeSlices(st, gen_slice(purged, SLICE_LENGTH))

(***************************************************************************)
(* resolve_cache_add, resolve_cache_del                                    *)
(***************************************************************************)
resolve_cache_add(st, path, node_id) ==
    [st EXCEPT !.path_to_node_id_cache = Upsert(@, path, node_id)]

resolve_cache_del(st, path) ==
    [st EXCEPT !.path_to_node_id_cache = Without(@, {path})]

(***************************************************************************)
(* insert_folders, insert_files                                            *)
(***************************************************************************)
FolderStep(st, f, t) ==
    LET n == FolderNode(f, t)
    IN  [st EXCEPT !.node_id_to_node_cache = CacheUpdate(@, n),
                   !.nodes = ReplaceIntoNodes(@, n)]

RECURSIVE insert_folders(_, _, _)
insert_folders(st, folders, t) ==
    IF folders = <<>> THEN st
    ELSE insert_folders(FolderStep(st, Head(folders), t), Tail(folders), t)


\* FileStep without the call of remove_content
FileStep_KeepContent(st, f, t) ==
    LET n == FileNode(f, t)
        s1 == [st EXCEPT !.node_id_to_node_cache = CacheUpdate(@, n)]
    IN  [s1 EXCEPT !.nodes = ReplaceIntoNodes(@, n),
                   !.files = ReplaceIntoFiles(@, n)]

FileStep(st, f, t) ==
    LET n == FileNode(f, t)
        s1 == [st EXCEPT !.node_id_to_node_cache = CacheUpdate(@, n)]
        s2 == IF ~is_available(n) THEN remove_content(s1, n.id) ELSE s1
    IN  [s2 EXCEPT !.nodes = ReplaceIntoNodes(@, n),
                   !.files = ReplaceIntoFiles(@, n)]

RECURSIVE insert_files(_, _, _)
insert_files(st, files_, t) ==
    IF files_ = <<>> THEN st
    ELSE insert_files(FileStep(st, Head(files_), t), Tail(files_), t)

(***************************************************************************)
(* insert_parentage                                                        *)
(***************************************************************************)
RECURSIVE DeleteChildSlices(_, _)
DeleteChildSlices(tbl, slices) ==
    IF slices = <<>> THEN tbl
    ELSE DeleteChildSlices(DeleteParentageByChild(tbl, IdsOf(Head(slices))), Tail(slices))

RECURSIVE InsertParents(_, _, _)
InsertParents(tbl, ps, c) ==
    IF ps = <<>> THEN tbl
    ELSE InsertParents(InsertOrIgnoreParentage(tbl, Head(ps), c), Tail(ps), c)

RECURSIVE InsertEdges(_, _)
InsertEdges(tbl, nodes_) ==
    IF nodes_ = <<>> THEN tbl
    ELSE InsertEdges(InsertParents(tbl, Head(nodes_)["parents"], Head(nodes_)["id"]),
                     Tail(nodes_))


\* insert_parentage that never deletes
insert_parentage_NoDelete(st, nodes_, partial) ==
    IF nodes_ = <<>> THEN st
    ELSE [st EXCEPT !.parentage = InsertEdges(@, nodes_)]

insert_parentage(st, nodes_, partial) ==
    IF nodes_ = <<>> THEN st
    ELSE LET d == IF partial
                  THEN DeleteChildSlices(st.parentage, gen_slice(nodes_, SLICE_LENGTH))
                  ELSE st.parentage
         IN  [st EXCEPT !.parentage = InsertEdges(d, nodes_)]

(***************************************************************************)
(* insert_properties                                                       *)
(***************************************************************************)
\* the rows of one node's properties dict: owner -> key -> value
PropertyRows(n) ==
    LET p == n["properties"]
        ks == UNION {{<<n["id"], o, k>> : k \in DOMAIN p[o]} : o \in DOMAIN p}
    IN  [e \in ks |-> p[e[2]][e[3]]]

RECURSIVE insert_properties(_, _)
insert_properties(st, nodes_) ==
    IF nodes_ = <<>> THEN st
    ELSE LET n == Head(nodes_)
             s1 == IF "properties" \notin DOMAIN n THEN st
                   ELSE [st EXCEPT !.properties = PropertyRows(n) @@ @]
         IN  insert_properties(s1, Tail(nodes_))

(***************************************************************************)
(* insert_nodes                                                            *)
(***************************************************************************)
IsFile(node) == /\ node["status"] # "PENDING"
                /\ node["kind"] = "FILE"
                /\ ~NoName(node)

\* the folder test without the isRoot exemption
IsFolder_NameOnly(node) == /\ node["status"] # "PENDING"
                           /\ node["kind"] = "FOLDER"
                           /\ ~NoName(node)

IsFolder(node) == /\ node["status"] # "PENDING"
                  /\ node["kind"] = "FOLDER"
                  /\ ~(NoName(node) /\ NoRoot(node))

FilesOf(nodes_) == SelectSeq(nodes_, IsFile)
FoldersOf(nodes_) == SelectSeq(nodes_, IsFolder)

insert_nodes(st, nodes_, partial, flush_resolve_cache, t) ==
    LET s0 == IF flush_resolve_cache
              THEN [st EXCEPT !.path_to_node_id_cache = EmptyTable]
              ELSE st
        files_ == FilesOf(nodes_)
        folders == FoldersOf(nodes_)
        s1 == insert_folders(s0, folders, t)
        s2 == insert_files(s1, files_, t)
        s3 == insert_parentage(s2, files_ \o folders, partial)
    IN  insert_properties(s3, files_ \o folders)

insert_node(st, node, flush_resolve_cache, t) ==
    IF DOMAIN node = {} THEN st
    ELSE insert_nodes(st, <<node>>, TRUE, flush_resolve_cache, t)

(***************************************************************************)
(* Inputs.                                                                 *)
(***************************************************************************)
Raw(id, kind, status, parents) ==
    [id |-> id, kind |-> kind, status |-> status, parents |-> parents,
     createdDate |-> D1, modifiedDate |-> D2]

Named(node) == node @@ [name |-> "n"]
Root(node) == node @@ [isRoot |-> TRUE]
WithContent(node) == node @@ [contentProperties |-> [md5 |-> "abc", size |-> 3, version |-> 1]]
WithProperties(node, v) == node @@ [properties |-> [o |-> [k |-> v]]]

RootA == Root(Raw("a", "FOLDER", "AVAILABLE", <<>>))
FileB == WithProperties(WithContent(Named(Raw("b", "FILE", "AVAILABLE", <<"a">>))), "v")
TrashB == Named(Raw("b", "FILE", "TRASH", <<"c">>))
FolderB == WithProperties(Named(Raw("b", "FOLDER", "AVAILABLE", <<"a", "c">>)), "w")
FolderC == Named(Raw("c", "FOLDER", "AVAILABLE", <<"a">>))
UnnamedB == Raw("b", "FILE", "TRASH", <<"a">>)

\* the raw nodes handed to insert_nodes
SyncNodes == {RootA, FileB, TrashB, FolderB, FolderC, UnnamedB}

\* the batches handed to insert_nodes: none, one node, and batches that
\* mix folders and files, repeat an id and change its status or its kind
SyncBatches ==
    {<<>>} \cup {<<n>> : n \in SyncNodes}
    \cup { <<RootA, FileB>>, <<FileB, RootA>>,
           <<FileB, TrashB>>, <<TrashB, FileB>>,
           <<FileB, FolderB>>, <<UnnamedB, FolderC>>,
           <<TrashB, FolderC, RootA>>, <<RootA, FolderC, FileB>> }

PlainA == Named(Raw("a", "FOLDER", "AVAILABLE", <<>>))
PurgedA == Named(Raw("a", "FILE", "PURGED", <<>>))
PlainTrashB == Named(Raw("b", "FILE", "TRASH", <<>>))
PlainB == WithContent(Named(Raw("b", "FILE", "AVAILABLE", <<>>)))
PendingB == Raw("b", "FILE", "PENDING", <<>>)

\* the raw nodes handed to insert_folders and insert_files
PlainNodes == {PlainA, PurgedA, PlainTrashB, PlainB, PendingB}

PlainBatches ==
    {<<>>} \cup {<<n>> : n \in PlainNodes}
    \cup { <<PlainA, PurgedA>>, <<PlainB, PlainTrashB>>, <<PlainTrashB, PlainB, PlainA>> }

\* the nodes handed to insert_parentage
EdgeNodes ==
    { Raw("b", "FILE", "AVAILABLE", ps) : ps \in {<<>>, <<"c">>, <<"a", "c">>, <<"a", "a">>} }
    \cup { Raw("a", "FOLDER", "AVAILABLE", <<"c">>) }

\* the nodes handed to insert_properties
PropertyNodes ==
    { WithProperties(Raw("a", "FOLDER", "AVAILABLE", <<>>), "v"),
      WithProperties(Raw("b", "FILE", "AVAILABLE", <<>>), "w"),
      Raw("b", "FILE", "AVAILABLE", <<>>) }

Batches(U) == UNION {[1..n -> U] : n \in 0..MaxBatch}

PurgeLists == UNION {[1..n -> Ids] : n \in 0..MaxBatch}

Payloads == {<<104, 105>>}

(***************************************************************************)
(* Init: the caches of a process that has just started, over a new store   *)
(* or over the store an earlier process left behind.                       *)
(***************************************************************************)
EmptyState ==
    [nodes |-> EmptyTable, files |-> EmptyTable, content |-> EmptyTable,
     parentage |-> EmptyBag, properties |-> EmptyTable, labels |-> {},
     node_id_to_node_cache |-> EmptyTable, path_to_node_id_cache |-> EmptyTable]

\* what an earlier process stored: a root folder, a file in it with its
\* content, and label rows (labels has no writer in the sync mixin)
EarlierStore ==
    LET s1 == insert_nodes(EmptyState, <<RootA, FileB>>, TRUE, FALSE, 0)
        s2 == insert_content(s1, "b", 1, <<104, 105>>, 0)
    IN  [s2 EXCEPT !.labels = {<<"a", "l">>, <<"b", "l">>},
                   !.node_id_to_node_cache = EmptyTable]

InitWith(st) ==
    /\ nodes = st.nodes
    /\ files = st.files
    /\ content = st.content
    /\ parentage = st.parentage
    /\ properties = st.properties
    /\ labels = st.labels
    /\ committed = Db(st)
    /\ node_id_to_node_cache = EmptyTable
    /\ path_to_node_id_cache = EmptyTable
    /\ node_cache_lock = None
    /\ now = 1
    /\ calls = 0
    /\ lastOp = [op |-> "init"]
    /\ before = st
    /\ pc = [t \in Threads |-> "idle"]
    /\ todo = [t \in Threads |-> <<>>]
    /\ cur = [t \in Threads |-> None]

(***************************************************************************)
(* The layout of the store (schema.py).  A layout is the set of tables,    *)
(* the set of (table, column) pairs and the set of (index, table) pairs.   *)
(* A script is a sequence of statements; sqlite3's executescript runs them *)
(* one after the other outside any transaction, so each statement that     *)
(* succeeds stays, and the first statement that fails ends the script with *)
(* an OperationalError.                                                    *)
(***************************************************************************)
_DB_SCHEMA_VER == 4

CreateTable(name, cols, guarded) ==
    [kind |-> "CREATE TABLE", name |-> name, cols |-> cols, guarded |-> guarded]
CreateIndex(name, tbl, guarded) ==
    [kind |-> "CREATE INDEX", name |-> name, tbl |-> tbl, guarded |-> guarded]
AlterTableAdd(tbl, col) == [kind |-> "ALTER TABLE ADD", tbl |-> tbl, col |-> col]
DropTableIfExists(name) == [kind |-> "DROP TABLE IF EXISTS", name |-> name]
Reindex == [kind |-> "REINDEX"]
Analyze == [kind |-> "ANALYZE"]
PragmaUserVersion(n) == [kind |-> "PRAGMA user_version", n |-> n]

ContentColumns == {"id", "value", "size", "version", "accessed"}
PropertiesColumns == {"id", "owner", "key", "value"}

_CREATION_SCRIPT ==
    << CreateTable("metadata", {"key", "value"}, FALSE),
       CreateTable("nodes", {"id", "type", "name", "description", "created",
                             "modified", "updated", "status"}, FALSE),
       CreateTable("properties", PropertiesColumns, FALSE),
       CreateTable("labels", {"id", "name"}, FALSE),
       CreateTable("files", {"id", "md5", "size", "version"}, FALSE),
       CreateTable("parentage", {"parent", "child"}, FALSE),
       CreateTable("content", ContentColumns, FALSE),
       CreateIndex("ix_content_size", "content", FALSE),
       CreateIndex("ix_content_accessed", "content", FALSE),
       CreateIndex("ix_parentage_child", "parentage", FALSE),
       CreateIndex("ix_parentage_parent", "parentage", FALSE),
       CreateIndex("ix_nodes_names", "nodes", FALSE),
       PragmaUserVersion(4) >>

_0_to_1 ==
    << AlterTableAdd("nodes", "updated"),
       AlterTableAdd("nodes", "description"),
       PragmaUserVersion(1) >>

_1_to_2 ==
    << DropTableIfExists("folders"),
       CreateIndex("ix_nodes_names", "nodes", TRUE),
       Reindex,
       PragmaUserVersion(2) >>

_2_to_3 ==
    << CreateTable("properties", PropertiesColumns, TRUE),
       CreateIndex("ix_parentage_child", "parentage", TRUE),
       CreateIndex("ix_parentage_parent", "parentage", TRUE),
       Analyze,
       PragmaUserVersion(3) >>

_3_to_4 ==
    << AlterTableAdd("files", "version"),
       DropTableIfExists("content"),
       CreateTable("content", ContentColumns, FALSE),
       CreateIndex("ix_content_size", "content", TRUE),
       CreateIndex("ix_content_accessed", "content", TRUE),
       Analyze,
       PragmaUserVersion(4) >>

_migrations == <<_0_to_1, _1_to_2, _2_to_3, _3_to_4>>

EmptyLayout == [tables |-> {}, columns |-> {}, indexes |-> {}]

IndexNames(lay) == {ix[1] : ix \in lay.indexes}

\* the outcome of one statement on a layout stamped version:
\* err is None, or why SQLite raises OperationalError
Exec(stmt, lay, version) ==
    LET ok(l, v) == [err |-> None, schema |-> l, version |-> v]
        fail(why) == [err |-> why, schema |-> lay, version |-> version]
    IN  CASE stmt.kind = "CREATE TABLE" ->
               IF stmt.name \in lay.tables
               THEN IF stmt.guarded THEN ok(lay, version) ELSE fail("exists")
               ELSE ok([lay EXCEPT !.tables = @ \cup {stmt.name},
                                   !.columns = @ \cup {<<stmt.name, c>> : c \in stmt.cols}],
                       version)
          [] stmt.kind = "CREATE INDEX" ->
               IF stmt.name \in IndexNames(lay)
               THEN IF stmt.guarded THEN ok(lay, version) ELSE fail("exists")
               ELSE IF stmt.tbl \notin lay.tables THEN fail("missing")
               ELSE ok([lay EXCEPT !.indexes = @ \cup {<<stmt.name, stmt.tbl>>}], version)
          [] stmt.kind = "ALTER TABLE ADD" ->
               IF stmt.tbl \notin lay.tables THEN fail("missing")
               ELSE IF <<stmt.tbl, stmt.col>> \in lay.columns THEN fail("exists")
               ELSE ok([lay EXCEPT !.columns = @ \cup {<<stmt.tbl, stmt.col>>}], version)
          [] stmt.kind = "DROP TABLE IF EXISTS" ->
               ok([tables |-> lay.tables \ {stmt.name},
                   columns |-> {c \in lay.columns : c[1] # stmt.name},
                   indexes |-> {ix \in lay.indexes : ix[2] # stmt.name}], version)
          [] stmt.kind = "PRAGMA user_version" -> ok(lay, stmt.n)
          [] OTHER -> ok(lay, version)

\* executescript without a failure
RECURSIVE RunScript(_, _, _)
RunScript(script, lay, version) ==
    IF script = <<>> THEN [err |-> None, schema |-> lay, version |-> version]
    ELSE LET r == Exec(Head(script), lay, version)
         IN  IF r.err # None THEN r ELSE RunScript(Tail(script), r.schema, r.version)

\* the layout create_tables gives a new store
CurrentLayout == RunScript(_CREATION_SCRIPT, EmptyLayout, 0).schema

\* the layout of a store stamped v < 4: the current one without what the
\* steps from v on add, and up to version 1 with the folders table that
\* _1_to_2 drops
OldLayout(v) ==
    LET l3 == [tables |-> CurrentLayout.tables \ {"content"},
               columns |-> {c \in CurrentLayout.columns :
                               c[1] # "content" /\ c # <<"files", "version">>},
               indexes |-> {ix \in CurrentLayout.indexes : ix[2] # "content"}]
        l2 == [tables |-> l3.tables \ {"properties"},
               columns |-> {c \in l3.columns : c[1] # "properties"},
               indexes |-> {ix \in l3.indexes : ix[2] # "parentage"}]
        l1 == [tables |-> l2.tables \cup {"folders"},
               columns |-> l2.columns \cup {<<"folders", "id">>},
               indexes |-> {}]
        l0 == [l1 EXCEPT !.columns = @ \ {<<"nodes", "updated">>,
                                          <<"nodes", "description">>}]
    IN  CASE v = 0 -> l0 [] v = 1 -> l1 [] v = 2 -> l2 [] v = 3 -> l3
          [] OTHER -> CurrentLayout

\* the store the sync mixin works on: init has run
LayoutCurrent ==
    /\ user_version = _DB_SCHEMA_VER
    /\ schema = CurrentLayout

InitIdle ==
    /\ in_pc = "idle"
    /\ in_script = <<>>
    /\ in_step = 0
    /\ in_error = None
    /\ in_swallowed = None
    /\ in_applied = <<>>
    /\ in_stamps = <<>>
    /\ in_start = [schema |-> EmptyLayout, version |-> 0]
    /\ in_v0 = 0
    /\ in_runs = 0
    /\ in_faults = 0

\* no statement-level run has started
PurgeIdle ==
    /\ rp_purged = <<>>
    /\ rp_slices = <<>>
    /\ rp_chunks = <<>>
    /\ rp_pc = "idle"
    /\ rp_fault = 0
    /\ rp_retried = FALSE

\* the metadata table is empty and the key-value storage has not been called
KvIdle ==
    /\ metadata = EmptyTable
    /\ kv_last = [op |-> "init"]
    /\ kv_prev = EmptyTable

\* insert_parentage has not been called
ParentageIdle ==
    /\ ip_pc = "idle"
    /\ ip_nodes = <<>>
    /\ ip_partial = FALSE
    /\ ip_fault = None

ExtIdle == PurgeIdle /\ LayoutCurrent /\ InitIdle /\ KvIdle /\ ParentageIdle

Init == (\E st \in {EmptyState, EarlierStore} : InitWith(st)) /\ ExtIdle

(***************************************************************************)
(* A call of a handler that runs to completion: every mod_cursor block of  *)
(* the handler has committed.  lastOp and before record the call and the   *)
(* state it started from.  Successive calls read increasing values of      *)
(* datetime.utcnow().                                                      *)
(***************************************************************************)
Complete(st, op) ==
    /\ calls < MaxCalls
    /\ nodes' = st.nodes
    /\ files' = st.files
    /\ content' = st.content
    /\ parentage' = st.parentage
    /\ properties' = st.properties
    /\ labels' = st.labels
    /\ committed' = Db(st)
    /\ node_id_to_node_cache' = st.node_id_to_node_cache
    /\ path_to_node_id_cache' = st.path_to_node_id_cache
    /\ calls' = calls + 1
    /\ now' = now + 1
    /\ lastOp' = op
    /\ before' = State
    /\ UNCHANGED <<threadvars, extvars>>

InsertNodes ==
    \E b \in SyncBatches, partial \in BOOLEAN, flush \in BOOLEAN :
        Complete(insert_nodes(State, b, partial, flush, now),
                 [op |-> "insert_nodes", nodes |-> b, partial |-> partial, flush |-> flush])

InsertNode ==
    \E n \in SyncNodes \cup {<<>>}, flush \in BOOLEAN :
        Complete(insert_node(State, n, flush, now),
                 [op |-> "insert_node", node |-> n, flush |-> flush])

InsertFolders ==
    \E b \in PlainBatches :
        Complete(insert_folders(State, b, now), [op |-> "insert_folders", nodes |-> b])

InsertFiles ==
    \E b \in PlainBatches :
        Complete(insert_files(State, b, now), [op |-> "insert_files", nodes |-> b])

InsertParentage ==
    \E b \in Batches(EdgeNodes), partial \in BOOLEAN :
        Complete(insert_parentage(State, b, partial),
                 [op |-> "insert_parentage", nodes |-> b, partial |-> partial])

InsertProperties ==
    \E b \in Batches(PropertyNodes) :
        Complete(insert_properties(State, b), [op |-> "insert_properties", nodes |-> b])

InsertProperty ==
    \E i \in Ids, o \in Owners, k \in Keys, v \in Values :
        Complete(insert_property(State, i, o, k, v),
                 [op |-> "insert_property", id |-> i, owner |-> o, key |-> k, value |-> v])

InsertContent ==
    \E i \in Ids, v \in Payloads :
        Complete(insert_content(State, i, 1, v, now), [op |-> "insert_content", id |-> i])

RemoveContent ==
    \E i \in Ids :
        Complete(remove_content(State, i), [op |-> "remove_content", id |-> i])

RemovePurged ==
    \E p \in PurgeLists :
        Complete(remove_purged(State, p), [op |-> "remove_purged", purged |-> p])

ResolveCacheAdd ==
    \E p \in Paths, i \in Ids :
        Complete(resolve_cache_add(State, p, i), [op |-> "resolve_cache_add", path |-> p, id |-> i])

ResolveCacheDel ==
    \E p \in Paths :
        Complete(resolve_cache_del(State, p), [op |-> "resolve_cache_del", path |-> p])

(***************************************************************************)
(* Spec: the sync flow.  Batches of changed nodes and lists of purged ids  *)
(* arrive one after the other; readers fill the path cache.                *)
(***************************************************************************)
Next ==
    \/ InsertNodes
    \/ InsertNode
    \/ RemovePurged
    \/ InsertContent
    \/ ResolveCacheAdd
    \/ ResolveCacheDel

Spec == Init /\ [][Next]_vars

(***************************************************************************)
(* SpecInsert: the insert handlers only.                                   *)
(***************************************************************************)
NextInsert ==
    \/ InsertNodes
    \/ InsertFolders
    \/ InsertFiles
    \/ InsertContent
    \/ ResolveCacheAdd

SpecInsert == Init /\ [][NextInsert]_vars

(***************************************************************************)
(* SpecEdges: the handlers of the parentage and properties tables.         *)
(***************************************************************************)
NextEdges ==
    \/ InsertParentage
    \/ InsertProperties
    \/ InsertProperty
    \/ RemoveContent
    \/ RemovePurged

SpecEdges == Init /\ [][NextEdges]_vars

(***************************************************************************)
(* SpecThreads: insert_folders and insert_files run by several threads on  *)
(* the one connection, statement by statement.  The block under            *)
(* node_cache_lock covers the cache update only; the mod_cursor block      *)
(* commits when it is left, and so does the mod_cursor block of            *)
(* remove_content.                                                         *)
(***************************************************************************)
ThreadNodes ==
    { Named(Raw("a", "FILE", "AVAILABLE", <<>>)),
      Named(Raw("a", "FILE", "TRASH", <<>>)) }

ThreadBatches == Batches(ThreadNodes)

dbvars == <<nodes, files, content, parentage, properties, labels, committed>>
ghostvars == <<now, calls, lastOp, before>>

Goto(t, label) == pc' = [pc EXCEPT ![t] = label]

\* the call: `if not folders: return`, else enter the mod_cursor block
Begin(t) ==
    /\ pc[t] = "idle"
    /\ \E op \in {"insert_folders", "insert_files"}, b \in ThreadBatches :
          /\ todo' = [todo EXCEPT ![t] = b]
          /\ cur' = [cur EXCEPT ![t] = [op |-> op, n |-> None]]
          /\ Goto(t, IF b = <<>> THEN "done" ELSE "loop")
    /\ now' = now + 1
    /\ UNCHANGED extvars
    /\ UNCHANGED <<dbvars, caches, node_cache_lock, calls, lastOp, before>>

\* `for f in folders: n = Node(...)`, or the end of the loop
LoopNode(t) ==
    /\ pc[t] = "loop"
    /\ todo[t] # <<>>
    /\ cur' = [cur EXCEPT ![t].n = IF cur[t].op = "insert_files"
                                   THEN FileNode(Head(todo[t]), now)
                                   ELSE FolderNode(Head(todo[t]), now)]
    /\ todo' = [todo EXCEPT ![t] = Tail(@)]
    /\ Goto(t, "lock")
    /\ UNCHANGED extvars
    /\ UNCHANGED <<dbvars, caches, node_cache_lock, ghostvars>>

\* `with self.node_cache_lock:`
Acquire(t) ==
    /\ pc[t] = "lock"
    /\ node_cache_lock = None
    /\ node_cache_lock' = t
    /\ Goto(t, "cache")
    /\ UNCHANGED extvars
    /\ UNCHANGED <<dbvars, caches, ghostvars, todo, cur>>

CacheStep(t) ==
    /\ pc[t] = "cache"
    /\ node_id_to_node_cache' = CacheUpdate(node_id_to_node_cache, cur[t].n)
    /\ Goto(t, "unlock")
    /\ UNCHANGED extvars
    /\ UNCHANGED <<dbvars, path_to_node_id_cache, node_cache_lock, ghostvars, todo, cur>>

Release(t) ==
    /\ pc[t] = "unlock"
    /\ node_cache_lock' = None
    /\ Goto(t, IF cur[t].op = "insert_files" /\ ~is_available(cur[t].n)
               THEN "remove_content" ELSE "nodes")
    /\ UNCHANGED extvars
    /\ UNCHANGED <<dbvars, caches, ghostvars, todo, cur>>

\* `self.remove_content(n.id)`: the DELETE and the commit of its mod_cursor
RemoveContentStep(t) ==
    /\ pc[t] = "remove_content"
    /\ content' = Without(content, {cur[t].n.id})
    /\ committed' = [nodes |-> nodes, files |-> files, content |-> content',
                     parentage |-> parentage, properties |-> properties,
                     labels |-> labels]
    /\ Goto(t, "nodes")
    /\ UNCHANGED extvars
    /\ UNCHANGED <<nodes, files, parentage, properties, labels, caches,
                   node_cache_lock, ghostvars, todo, cur>>

\* `c.execute('INSERT OR REPLACE INTO nodes ...')`
NodesStep(t) ==
    /\ pc[t] = "nodes"
    /\ nodes' = ReplaceIntoNodes(nodes, cur[t].n)
    /\ Goto(t, IF cur[t].op = "insert_files" THEN "files" ELSE "loop")
    /\ UNCHANGED extvars
    /\ UNCHANGED <<files, content, parentage, properties, labels, committed, caches,
                   node_cache_lock, ghostvars, todo, cur>>

\* `c.execute('INSERT OR REPLACE INTO files ...')`
FilesStep(t) ==
    /\ pc[t] = "files"
    /\ files' = ReplaceIntoFiles(files, cur[t].n)
    /\ Goto(t, "loop")
    /\ UNCHANGED extvars
    /\ UNCHANGED <<nodes, content, parentage, properties, labels, committed, caches,
                   node_cache_lock, ghostvars, todo, cur>>

\* the end of the mod_cursor block: commit
Commit(t) ==
    /\ pc[t] = "loop"
    /\ todo[t] = <<>>
    /\ committed' = Db(State)
    /\ Goto(t, "done")
    /\ UNCHANGED extvars
    /\ UNCHANGED <<tables, caches, node_cache_lock, ghostvars, todo, cur>>

NextThreads ==
    \E t \in Threads :
        \/ Begin(t)
        \/ LoopNode(t)
        \/ Acquire(t)
        \/ CacheStep(t)
        \/ Release(t)
        \/ RemoveContentStep(t)
        \/ NodesStep(t)
        \/ FilesStep(t)
        \/ Commit(t)

SpecThreads == Init /\ [][NextThreads]_vars

(***************************************************************************)
(* SpecPurge: remove_purged run chunk by chunk.  gen_slice cuts the list   *)
(* into slices of SLICE_LENGTH ids; each slice is deleted in a mod_cursor  *)
(* block of its own.  A store error in a block leaves the block without    *)
(* effect and leaves remove_purged through the for loop, which has no      *)
(* handler; the caller may then call remove_purged again with the list.    *)
(* The store of this specification holds the node ids 1..StoreSize.        *)
(***************************************************************************)
MaxPurge == 250
StoreSize == MaxPurge + 2

PurgePatterns == {"asc", "desc", "twice"}

\* id lists of n elements: ascending, descending, and each id twice
PurgeList(n, pattern) ==
    [i \in 1..n |-> CASE pattern = "asc" -> i
                      [] pattern = "desc" -> n + 1 - i
                      [] OTHER -> (i + 1) \div 2]

\* what an earlier sync stored: a chain of files, each with content, a
\* property and a label
BigStore ==
    [nodes |-> [i \in 1..StoreSize |->
                  NodeRow(FileNode(Named(Raw(i, "FILE", "AVAILABLE", <<>>)), 0))],
     files |-> [i \in 1..StoreSize |->
                  FileRow(FileNode(Named(Raw(i, "FILE", "AVAILABLE", <<>>)), 0))],
     content |-> [i \in 1..StoreSize |-> [value |-> <<104>>, size |-> 1,
                                         version |-> 1, accessed |-> 0]],
     parentage |-> [e \in {<<i, i + 1>> : i \in 1..(StoreSize - 1)} |-> 1],
     properties |-> [k \in {<<i, "o", "k">> : i \in 1..StoreSize} |-> "v"],
     labels |-> {<<i, "l">> : i \in 1..StoreSize},
     node_id_to_node_cache |-> EmptyTable,
     path_to_node_id_cache |-> EmptyTable]

InitPurge == InitWith(BigStore) /\ ExtIdle

SetTables(st) ==
    /\ nodes' = st.nodes
    /\ files' = st.files
    /\ content' = st.content
    /\ parentage' = st.parentage
    /\ properties' = st.properties
    /\ labels' = st.labels

\* the store as of the last commit, which a block that raises falls back to
Rollback == committed

\* `if not purged: return`, else the first `for slice_ in gen_slice(purged)`
PurgeBegin ==
    /\ rp_pc = "idle"
    /\ \E n \in 0..MaxPurge, pattern \in PurgePatterns :
          LET l == PurgeList(n, pattern)
          IN  /\ rp_purged' = l
              /\ rp_slices' = IF l = <<>> THEN <<>> ELSE gen_slice(l, SLICE_LENGTH)
              /\ rp_pc' = IF l = <<>> THEN "returned" ELSE "loop"
    /\ before' = State
    /\ UNCHANGED notpurge
    /\ UNCHANGED <<dbvars, caches, threadvars, now, calls, lastOp,
                   rp_chunks, rp_fault, rp_retried>>

\* one pass of the loop: the seven DELETEs of the slice and the commit
PurgeChunk ==
    /\ rp_pc = "loop"
    /\ rp_slices # <<>>
    /\ LET st == PurgeSlice(State, Head(rp_slices))
       IN  SetTables(st) /\ committed' = Db(st)
    /\ rp_chunks' = Append(rp_chunks, Head(rp_slices))
    /\ rp_slices' = Tail(rp_slices)
    /\ UNCHANGED notpurge
    /\ UNCHANGED <<caches, threadvars, ghostvars, rp_purged, rp_pc, rp_fault, rp_retried>>

\* a pass of the loop in which a statement raises, were the error swallowed
\* and the loop continued
PurgeFails_Continue ==
    /\ rp_pc = "loop"
    /\ rp_slices # <<>>
    /\ ~rp_retried
    /\ rp_fault = 0
    /\ SetTables(Rollback)
    /\ rp_fault' = Len(rp_chunks) + 1
    /\ rp_slices' = Tail(rp_slices)
    /\ UNCHANGED notpurge
    /\ UNCHANGED <<committed, caches, threadvars, ghostvars,
                   rp_purged, rp_pc, rp_chunks, rp_retried>>

\* a pass of the loop in which a statement raises: the error leaves the
\* block, the loop and remove_purged
PurgeFails ==
    /\ rp_pc = "loop"
    /\ rp_slices # <<>>
    /\ ~rp_retried
    /\ rp_fault = 0
    /\ SetTables(Rollback)
    /\ rp_fault' = Len(rp_chunks) + 1
    /\ rp_pc' = "raised"
    /\ UNCHANGED notpurge
    /\ UNCHANGED <<committed, caches, threadvars, ghostvars,
                   rp_purged, rp_slices, rp_chunks, rp_retried>>

\* the loop is exhausted: `logger.info('Purged %i node(s).')`
PurgeReturn ==
    /\ rp_pc = "loop"
    /\ rp_slices = <<>>
    /\ rp_pc' = "returned"
    /\ UNCHANGED notpurge
    /\ UNCHANGED <<dbvars, caches, threadvars, ghostvars,
                   rp_purged, rp_slices, rp_chunks, rp_fault, rp_retried>>

\* the caller calls remove_purged again with the same list
PurgeRetry ==
    /\ rp_pc = "raised"
    /\ rp_slices' = gen_slice(rp_purged, SLICE_LENGTH)
    /\ rp_chunks' = <<>>
    /\ rp_retried' = TRUE
    /\ rp_pc' = "loop"
    /\ UNCHANGED notpurge
    /\ UNCHANGED <<dbvars, caches, threadvars, ghostvars, rp_purged, rp_fault>>

NextPurge ==
    \/ PurgeBegin
    \/ PurgeChunk
    \/ PurgeFails
    \/ PurgeReturn
    \/ PurgeRetry

SpecPurge == InitPurge /\ [][NextPurge]_vars

(***************************************************************************)
(* SpecSchema: SchemaMixin.init run statement by statement on a new store  *)
(* and on stores stamped 0..4, with store errors (a locked or unreadable   *)
(* database) striking any statement of a script.  init may be called again *)
(* after it has returned or raised.                                        *)
(***************************************************************************)
MaxInits == 2
MaxFaults == 1

syncvars == <<dbvars, caches, threadvars, ghostvars>>

InitSchema ==
    /\ InitWith(EmptyState)
    /\ PurgeIdle
    /\ InitIdle
    /\ KvIdle
    /\ ParentageIdle
    /\ \/ user_version = 0 /\ schema = EmptyLayout
       \/ \E v \in 0.._DB_SCHEMA_VER : user_version = v /\ schema = OldLayout(v)

\* the reasons for which the statement raises OperationalError now
Failures(stmt) ==
    ({Exec(stmt, schema, user_version).err} \ {None})
        \cup (IF in_faults < MaxFaults THEN {"fault"} ELSE {})

\* `_migrations[version:]` enumerated: the step run for v = i + version
Migration_Next(v) == _migrations[Min(v + 2, Len(_migrations))]

Migration(v) == _migrations[v + 1]

Stamped(v) == IF v = user_version THEN in_stamps ELSE Append(in_stamps, v)

\* init(): `try: self.create_tables()`.  in_v0 is the stamp the call finds;
\* in_start is the layout and stamp the call, and then each migration step,
\* starts from; in_applied lists the steps run through as
\* <<step, stamp before, stamp after>>; in_stamps the values of the stamp.
InitCall ==
    /\ in_pc \in {"idle", "done", "raised"}
    /\ in_runs < MaxInits
    /\ in_runs' = in_runs + 1
    /\ in_pc' = "create"
    /\ in_script' = _CREATION_SCRIPT
    /\ in_step' = 0
    /\ in_error' = None
    /\ in_swallowed' = None
    /\ in_applied' = <<>>
    /\ in_start' = [schema |-> schema, version |-> user_version]
    /\ in_v0' = user_version
    /\ in_stamps' = IF in_stamps = <<>> THEN <<user_version>> ELSE in_stamps
    /\ UNCHANGED <<syncvars, notinit, layoutvars, in_faults>>

\* a statement of _CREATION_SCRIPT succeeds
CreateStatement ==
    /\ in_pc = "create"
    /\ in_script # <<>>
    /\ LET r == Exec(Head(in_script), schema, user_version)
       IN  /\ r.err = None
           /\ schema' = r.schema
           /\ user_version' = r.version
           /\ in_stamps' = Stamped(r.version)
    /\ in_script' = Tail(in_script)
    /\ UNCHANGED <<syncvars, notinit, in_pc, in_step, in_error, in_swallowed,
                   in_applied, in_start, in_v0, in_runs, in_faults>>

\* a statement of _CREATION_SCRIPT raises: `except OperationalError: pass`
CreateFails ==
    /\ in_pc = "create"
    /\ in_script # <<>>
    /\ \E why \in Failures(Head(in_script)) :
          /\ in_swallowed' = why
          /\ in_faults' = IF why = "fault" THEN in_faults + 1 ELSE in_faults
    /\ in_script' = <<>>
    /\ in_pc' = "read"
    /\ UNCHANGED <<syncvars, notinit, layoutvars, in_step, in_error,
                   in_applied, in_stamps, in_start, in_v0, in_runs>>

\* create_tables: the script is through, `self._conn.commit()`
CreateEnd ==
    /\ in_pc = "create"
    /\ in_script = <<>>
    /\ in_pc' = "read"
    /\ UNCHANGED <<syncvars, notinit, layoutvars, in_script, in_step, in_error,
                   in_swallowed, in_applied, in_stamps, in_start, in_v0, in_runs, in_faults>>

\* `PRAGMA user_version;` and `if self._DB_SCHEMA_VER > ver: self._migrate(ver)`
ReadVersion ==
    /\ in_pc = "read"
    /\ IF _DB_SCHEMA_VER > user_version
       THEN /\ in_pc' = "migrate"
            /\ in_step' = user_version
            /\ in_script' = Migration(user_version)
            /\ in_start' = [schema |-> schema, version |-> user_version]
       ELSE /\ in_pc' = "done"
            /\ UNCHANGED <<in_step, in_script, in_start>>
    /\ UNCHANGED <<syncvars, notinit, layoutvars, in_error, in_swallowed,
                   in_applied, in_stamps, in_v0, in_runs, in_faults>>

\* a statement of the migration succeeds
MigrateStatement ==
    /\ in_pc = "migrate"
    /\ in_script # <<>>
    /\ LET r == Exec(Head(in_script), schema, user_version)
       IN  /\ r.err = None
           /\ schema' = r.schema
           /\ user_version' = r.version
           /\ in_stamps' = Stamped(r.version)
    /\ in_script' = Tail(in_script)
    /\ UNCHANGED <<syncvars, notinit, in_pc, in_step, in_error, in_swallowed,
                   in_applied, in_start, in_v0, in_runs, in_faults>>

\* a statement of the migration raises: the error leaves _migrate and init
MigrateFails ==
    /\ in_pc = "migrate"
    /\ in_script # <<>>
    /\ \E why \in Failures(Head(in_script)) :
          /\ in_error' = why
          /\ in_faults' = IF why = "fault" THEN in_faults + 1 ELSE in_faults
    /\ in_pc' = "raised"
    /\ UNCHANGED <<syncvars, notinit, layoutvars, in_script, in_step, in_swallowed,
                   in_applied, in_stamps, in_start, in_v0, in_runs>>

\* the migration's script is through, `conn.commit()`; the next pass of the
\* loop of _migrate, or its end and the end of init
MigrateEnd ==
    /\ in_pc = "migrate"
    /\ in_script = <<>>
    /\ in_applied' = Append(in_applied, <<in_step, in_start.version, user_version>>)
    /\ IF in_step + 1 < Len(_migrations)
       THEN /\ in_step' = in_step + 1
            /\ in_script' = Migration(in_step + 1)
            /\ in_start' = [schema |-> schema, version |-> user_version]
            /\ UNCHANGED in_pc
       ELSE /\ in_pc' = "done"
            /\ UNCHANGED <<in_step, in_script, in_start>>
    /\ UNCHANGED <<syncvars, notinit, layoutvars, in_error, in_swallowed,
                   in_stamps, in_v0, in_runs, in_faults>>

NextSchema ==
    \/ InitCall
    \/ CreateStatement
    \/ CreateFails
    \/ CreateEnd
    \/ ReadVersion
    \/ MigrateStatement
    \/ MigrateFails
    \/ MigrateEnd

SpecSchema == InitSchema /\ [][NextSchema]_vars

(***************************************************************************)
(* SpecKV: _KeyValueStorage over the metadata table, a function from the   *)
(* key to the value of its row.  A call returns a value or raises          *)
(* KeyError; kv_last records the call and its outcome, kv_prev the table   *)
(* before it.  None as a value is SQL NULL.                                *)
(***************************************************************************)
KvKeys == {"k1", "k2"}
KvValues == {"v", "w", None}
KvDefaults == {"d", None}

\* the dicts update is called with
KvDicts == UNION {[ks -> KvValues \ {None}] : ks \in SUBSET KvKeys}

Return(v) == [kind |-> "return", value |-> v]
Raise(e) == [kind |-> "raise", value |-> e]

\* `SELECT value FROM metadata WHERE key = ?`: the rows fetchone() draws from
SelectValue(md, key) == IF key \in DOMAIN md THEN <<[value |-> md[key]]>> ELSE <<>>

__getitem__(md, key) ==
    LET r == SelectValue(md, key)
    IN  IF r # <<>> THEN Return(r[1].value) ELSE Raise("KeyError")

\* INSERT OR IGNORE in place of INSERT OR REPLACE
__setitem___Ignore(md, key, value) ==
    IF key \in DOMAIN md THEN md ELSE Upsert(md, key, value)

\* `INSERT OR REPLACE INTO metadata VALUES (?, ?)`
__setitem__(md, key, value) == Upsert(md, key, value)

get(md, key, default) ==
    LET r == SelectValue(md, key)
    IN  Return(IF r # <<>> THEN r[1].value ELSE default)

\* `for key in dict_.keys(): self.__setitem__(key, dict_[key])`
RECURSIVE update(_, _)
update(md, dict_) ==
    IF DOMAIN dict_ = {} THEN md
    ELSE LET key == CHOOSE k \in DOMAIN dict_ : TRUE
         IN  update(__setitem__(md, key, dict_[key]), Without(dict_, {key}))

KvDone(md, op) ==
    /\ calls < MaxCalls
    /\ calls' = calls + 1
    /\ metadata' = md
    /\ kv_last' = op
    /\ kv_prev' = metadata
    /\ UNCHANGED <<dbvars, caches, threadvars, now, lastOp, before, notkv>>

KvSetItem ==
    \E key \in KvKeys, value \in KvValues :
        KvDone(__setitem__(metadata, key, value),
               [op |-> "__setitem__", key |-> key, value |-> value, result |-> Return(None)])

KvGetItem ==
    \E key \in KvKeys :
        KvDone(metadata,
               [op |-> "__getitem__", key |-> key, result |-> __getitem__(metadata, key)])

KvGet ==
    \E key \in KvKeys, default \in KvDefaults :
        KvDone(metadata,
               [op |-> "get", key |-> key, default |-> default,
                result |-> get(metadata, key, default)])

KvUpdate ==
    \E dict_ \in KvDicts :
        KvDone(update(metadata, dict_),
               [op |-> "update", dict_ |-> dict_, result |-> Return(None)])

NextKV ==
    \/ KvSetItem
    \/ KvGetItem
    \/ KvGet
    \/ KvUpdate

SpecKV == Init /\ [][NextKV]_vars

(***************************************************************************)
(* SpecClassify: one call of insert_nodes with a batch that mixes nodes    *)
(* insert_nodes keeps with nodes it skips, on a new store, on the store an *)
(* earlier process left, and on that store with both caches filled.        *)
(***************************************************************************)
KeptFileA == Named(Raw("a", "FILE", "AVAILABLE", <<"c">>))
PendingNamedB == Named(Raw("b", "FILE", "PENDING", <<"a">>))
EmptyNameB == Raw("b", "FILE", "AVAILABLE", <<"a">>) @@ [name |-> ""]
UnnamedFolderB == Raw("b", "FOLDER", "AVAILABLE", <<"a">>)
NotRootFolderB == Raw("b", "FOLDER", "AVAILABLE", <<"a">>) @@ [isRoot |-> FALSE]
AssetB == Named(Raw("b", "ASSET", "AVAILABLE", <<"a">>))
OtherB == Named(Raw("b", "ALBUM", "AVAILABLE", <<"a">>))
PendingRootC == Root(Raw("c", "FOLDER", "PENDING", <<>>))

MixedNodes ==
    { KeptFileA, RootA, FolderC, TrashB,
      PendingNamedB, UnnamedB, EmptyNameB, UnnamedFolderB, NotRootFolderB,
      AssetB, OtherB, PendingRootC }

MixedBatches == Batches(MixedNodes)

\* the store of EarlierStore in the process that wrote it, after a reader
\* has resolved the path of b
WarmStore ==
    LET s1 == insert_nodes(EmptyState, <<RootA, FileB>>, TRUE, FALSE, 0)
        s2 == insert_content(s1, "b", 1, <<104, 105>>, 0)
    IN  resolve_cache_add([s2 EXCEPT !.labels = {<<"a", "l">>, <<"b", "l">>}], "/x", "b")

InitClassify ==
    /\ \E st \in {EmptyState, EarlierStore, WarmStore} :
          /\ nodes = st.nodes
          /\ files = st.files
          /\ content = st.content
          /\ parentage = st.parentage
          /\ properties = st.properties
          /\ labels = st.labels
          /\ committed = Db(st)
          /\ node_id_to_node_cache = st.node_id_to_node_cache
          /\ path_to_node_id_cache = st.path_to_node_id_cache
          /\ before = st
    /\ node_cache_lock = None
    /\ now = 1
    /\ calls = 0
    /\ lastOp = [op |-> "init"]
    /\ pc = [t \in Threads |-> "idle"]
    /\ todo = [t \in Threads |-> <<>>]
    /\ cur = [t \in Threads |-> None]
    /\ ExtIdle

InsertMixed ==
    /\ lastOp.op = "init"
    /\ \E b \in MixedBatches, partial \in BOOLEAN, flush \in BOOLEAN :
          Complete(insert_nodes(State, b, partial, flush, now),
                   [op |-> "insert_nodes", nodes |-> b, partial |-> partial, flush |-> flush])

NextClassify == InsertMixed

SpecClassify == InitClassify /\ [][NextClassify]_vars

(***************************************************************************)
(* SpecParentage: insert_parentage run block by block.  With partial the   *)
(* DELETEs are in a first mod_cursor block, which commits when it is left, *)
(* and the INSERTs in a second one.  A store error in a block leaves the   *)
(* block without effect and leaves insert_parentage.                       *)
(***************************************************************************)
\* `if not nodes: return`, else `if partial:`
ParentageBegin ==
    /\ ip_pc \in {"idle", "returned", "raised"}
    /\ calls < MaxCalls
    /\ calls' = calls + 1
    /\ \E b \in Batches(EdgeNodes), partial \in BOOLEAN :
          /\ ip_nodes' = b
          /\ ip_partial' = partial
          /\ ip_pc' = IF b = <<>> THEN "returned"
                      ELSE IF partial THEN "delete" ELSE "insert"
    /\ ip_fault' = None
    /\ before' = State
    /\ UNCHANGED <<dbvars, caches, threadvars, now, lastOp, notparentage>>

\* the first block with its commit left out: the DELETEs stay uncommitted
ParentageDelete_Uncommitted ==
    /\ ip_pc = "delete"
    /\ parentage' = DeleteChildSlices(parentage, gen_slice(ip_nodes, SLICE_LENGTH))
    /\ ip_pc' = "insert"
    /\ UNCHANGED <<nodes, files, content, properties, labels, committed, caches,
                   threadvars, ghostvars, notparentage, ip_nodes, ip_partial, ip_fault>>

\* the first block: `DELETE FROM parentage WHERE child IN (...)` for each
\* slice, and the commit
ParentageDelete ==
    /\ ip_pc = "delete"
    /\ parentage' = DeleteChildSlices(parentage, gen_slice(ip_nodes, SLICE_LENGTH))
    /\ committed' = [committed EXCEPT !.parentage = parentage']
    /\ ip_pc' = "insert"
    /\ UNCHANGED <<nodes, files, content, properties, labels, caches,
                   threadvars, ghostvars, notparentage, ip_nodes, ip_partial, ip_fault>>

\* a statement of the block the run is in raises
ParentageFails ==
    /\ ip_pc \in {"delete", "insert"}
    /\ SetTables(Rollback)
    /\ ip_fault' = ip_pc
    /\ ip_pc' = "raised"
    /\ UNCHANGED <<committed, caches, threadvars, ghostvars, notparentage,
                   ip_nodes, ip_partial>>

\* the second block: `INSERT OR IGNORE INTO parentage` for each parent of
\* each node, and the commit
ParentageInsert ==
    /\ ip_pc = "insert"
    /\ parentage' = InsertEdges(parentage, ip_nodes)
    /\ committed' = [committed EXCEPT !.parentage = parentage']
    /\ ip_pc' = "returned"
    /\ UNCHANGED <<nodes, files, content, properties, labels, caches,
                   threadvars, ghostvars, notparentage, ip_nodes, ip_partial, ip_fault>>

NextParentage ==
    \/ ParentageBegin
    \/ ParentageDelete
    \/ ParentageFails
    \/ ParentageInsert

SpecParentage == Init /\ [][NextParentage]_vars

(***************************************************************************)
(* SpecPaths: readers cache the path of a node they have resolved, which   *)
(* is in the store and AVAILABLE, and drop paths; batches arrive without   *)
(* the flush, and purged ids are removed.                                  *)
(***************************************************************************)
ResolveCacheAddResolved ==
    \E p \in Paths, i \in DOMAIN nodes :
        /\ nodes[i].status = "AVAILABLE"
        /\ Complete(resolve_cache_add(State, p, i),
                    [op |-> "resolve_cache_add", path |-> p, id |-> i])

InsertNodesNoFlush ==
    \E b \in SyncBatches, partial \in BOOLEAN :
        Complete(insert_nodes(State, b, partial, FALSE, now),
                 [op |-> "insert_nodes", nodes |-> b, partial |-> partial, flush |-> FALSE])

NextPaths ==
    \/ ResolveCacheAddResolved
    \/ ResolveCacheDel
    \/ InsertNodesNoFlush
    \/ RemovePurged

SpecPaths == Init /\ [][NextPaths]_vars

(***************************************************************************)
(* Properties.                                                             *)
(***************************************************************************)
InsertOps == {"insert_nodes", "insert_node", "insert_folders", "insert_files"}

\* the (parent, child) pairs declared by the parents lists of a batch
Declared(nodes_) ==
    UNION { {<<nodes_[i]["parents"][j], nodes_[i]["id"]>> : j \in DOMAIN nodes_[i]["parents"]}
            : i \in DOMAIN nodes_ }

\* a state with the updated timestamps blanked
BlankUpdated(tbl) == [x \in DOMAIN tbl |-> [tbl[x] EXCEPT !.updated = 0]]
ButUpdated(st) == [st EXCEPT !.nodes = BlankUpdated(@),
                             !.node_id_to_node_cache = BlankUpdated(@)]

\* C1: after any sequence of completed insert_nodes / insert_folders /
\* insert_files calls, every id of the node-id -> Node cache has a nodes row
\* whose status is AVAILABLE.
C1_Availability ==
    \A id \in DOMAIN node_id_to_node_cache :
        id \in DOMAIN nodes /\ nodes[id].status = "AVAILABLE"

\* an insert has just persisted a non-AVAILABLE status for an id that was cached
C1_Witness ==
    /\ lastOp.op \in InsertOps
    /\ \E id \in DOMAIN before.node_id_to_node_cache :
           id \in DOMAIN nodes /\ nodes[id].status # "AVAILABLE"
    /\ node_id_to_node_cache # EmptyTable

\* C2 as stated: applying insert_nodes a second time with the batch and flags
\* of the call that has just completed leaves the persisted rows and both
\* caches exactly as the first application left them.
C2_IdempotentExact ==
    lastOp.op = "insert_nodes" =>
        insert_nodes(State, lastOp.nodes, lastOp.partial, lastOp.flush, now) = State

\* C2 amended: a second application of insert_nodes with the same batch and
\* flags leaves the persisted rows and both caches as the first application
\* left them, except for the updated timestamp of the upserted nodes.
C2_IdempotentButUpdated ==
    lastOp.op = "insert_nodes" =>
        ButUpdated(insert_nodes(State, lastOp.nodes, lastOp.partial, lastOp.flush, now))
            = ButUpdated(State)

\* a call of insert_nodes that repeated a batch of files and folders: it
\* changed the updated timestamps and nothing else
C2_Witness ==
    /\ lastOp.op = "insert_nodes"
    /\ before # State
    /\ ButUpdated(before) = ButUpdated(State)
    /\ files # EmptyTable
    /\ parentage # EmptyBag
    /\ node_id_to_node_cache # EmptyTable

\* C3: after remove_purged(ids) no row of nodes, files, content, parentage
\* (as parent or as child), properties or labels refers to an id of ids, and
\* the rows that refer only to other ids are as they were.
C3_PurgeComplete ==
    lastOp.op = "remove_purged" =>
        LET ids == Range(lastOp.purged)
            keep(e) == e[1] \notin ids /\ e[2] \notin ids
        IN  /\ nodes = Without(before.nodes, ids)
            /\ files = Without(before.files, ids)
            /\ content = Without(before.content, ids)
            /\ parentage = [e \in {x \in DOMAIN before.parentage : keep(x)} |->
                               before.parentage[e]]
            /\ properties = [e \in {x \in DOMAIN before.properties : x[1] \notin ids} |->
                                before.properties[e]]
            /\ labels = {x \in before.labels : x[1] \notin ids}
            /\ \A e \in DOMAIN parentage : keep(e)

\* a purge of an id that had a row in each of the six tables, another node kept
C3_Witness ==
    /\ lastOp.op = "remove_purged"
    /\ \E id \in Range(lastOp.purged) :
          /\ id \in DOMAIN before.nodes
          /\ id \in DOMAIN before.files
          /\ id \in DOMAIN before.content
          /\ \E e \in DOMAIN before.parentage : e[2] = id
          /\ \E e \in DOMAIN before.properties : e[1] = id
          /\ \E e \in before.labels : e[1] = id
    /\ \E id \in Range(lastOp.purged) : \E e \in DOMAIN before.parentage : e[1] = id
    /\ nodes # EmptyTable

\* C4: after remove_purged(ids) the node-id -> Node cache has no entry for
\* an id of ids.
C4_PurgeEvicts ==
    lastOp.op = "remove_purged" =>
        DOMAIN node_id_to_node_cache \cap Range(lastOp.purged) = {}

\* the ids a batch of insert_nodes upserts as AVAILABLE
UpsertedAvailable(nodes_) ==
    {n["id"] : n \in {x \in Range(FilesOf(nodes_)) \cup Range(FoldersOf(nodes_)) :
                         x["status"] = "AVAILABLE"}}

\* C5: after insert_nodes with flush_resolve_cache set, the path -> node-id
\* cache is empty and the node-id -> Node cache holds only ids the batch
\* upserted as AVAILABLE.
C5_FlushClearsBoth ==
    (lastOp.op = "insert_nodes" /\ lastOp.flush) =>
        /\ path_to_node_id_cache = EmptyTable
        /\ DOMAIN node_id_to_node_cache \subseteq UpsertedAvailable(lastOp.nodes)

\* C6: whenever node_cache_lock is free, every id of the node-id -> Node
\* cache has a committed nodes row with status AVAILABLE and the attributes
\* of the cached Node; in particular when every thread has returned.
C6_CacheMatchesStore ==
    node_cache_lock = None =>
        \A id \in DOMAIN node_id_to_node_cache :
            /\ id \in DOMAIN committed.nodes
            /\ committed.nodes[id].status = "AVAILABLE"
            /\ committed.nodes[id] = NodeRow(node_id_to_node_cache[id])

\* C7: after insert_parentage(nodes, partial=True) the edges whose child is
\* a node of the batch are exactly the declared (parent, child) pairs, and
\* the edges of other children are as they were.
C7_PartialReplaces ==
    (lastOp.op = "insert_parentage" /\ lastOp.partial) =>
        LET kids == IdsOf(lastOp.nodes)
        IN  /\ {e \in DOMAIN parentage : e[2] \in kids} = Declared(lastOp.nodes)
            /\ DeleteParentageByChild(parentage, kids)
                   = DeleteParentageByChild(before.parentage, kids)

\* a partial call that dropped an old edge of a child, added a declared one
\* and kept the edge of a child outside the batch
C7_Witness ==
    /\ lastOp.op = "insert_parentage"
    /\ lastOp.partial
    /\ \E e \in DOMAIN before.parentage :
           e[2] \in IdsOf(lastOp.nodes) /\ e \notin Declared(lastOp.nodes)
    /\ \E e \in Declared(lastOp.nodes) : e \notin DOMAIN before.parentage
    /\ \E e \in DOMAIN parentage : e[2] \notin IdsOf(lastOp.nodes)

\* C8: insert_parentage(nodes, partial=False) removes no edge and adds no
\* duplicate: the edges are the earlier edges and the declared ones, each
\* (parent, child) pair once.
C8_Additive ==
    (lastOp.op = "insert_parentage" /\ ~lastOp.partial) =>
        /\ DOMAIN parentage = DOMAIN before.parentage \cup Declared(lastOp.nodes)
        /\ \A e \in DOMAIN parentage : CopiesIn(e, parentage) = 1

\* an additive call that declared edges all of which were present already
C8_Witness ==
    /\ lastOp.op = "insert_parentage"
    /\ ~lastOp.partial
    /\ Declared(lastOp.nodes) # {}
    /\ Declared(lastOp.nodes) \subseteq DOMAIN before.parentage
    /\ \E e \in DOMAIN before.parentage : e \notin Declared(lastOp.nodes)
    /\ parentage = before.parentage

\* the file nodes the last call processed: insert_files takes every node of
\* its list, insert_nodes the named FILE nodes that are not PENDING
ProcessedFiles ==
    IF lastOp.op = "insert_files" THEN Range(lastOp.nodes)
    ELSE {x \in Range(lastOp.nodes) :
             /\ x["kind"] = "FILE"
             /\ x["status"] # "PENDING"
             /\ "name" \in DOMAIN x /\ x["name"] # ""}

UnavailableFiles == {n["id"] : n \in {x \in ProcessedFiles : x["status"] # "AVAILABLE"}}

\* C9: after insert_files or insert_nodes has processed a batch, no content
\* row is left for the id of a file of the batch that is not AVAILABLE, and
\* the content rows of every other id are as they were.
C9_ContentInvalidation ==
    lastOp.op \in {"insert_files", "insert_nodes"} =>
        content = Without(before.content, UnavailableFiles)

\* an insert of an unavailable file that had a content row, a content row
\* of another id kept
C9_Witness ==
    /\ lastOp.op \in {"insert_files", "insert_nodes"}
    /\ \E n \in ProcessedFiles :
           n["status"] \in {"TRASH", "PURGED"} /\ n["id"] \in DOMAIN before.content
    /\ content # EmptyTable

\* C10: every files row, every properties row and both ends of every
\* parentage edge refer to an id that has a row in nodes.
C10_NoOrphans ==
    /\ DOMAIN files \subseteq DOMAIN nodes
    /\ \A e \in DOMAIN properties : e[1] \in DOMAIN nodes
    /\ \A e \in DOMAIN parentage : e[1] \in DOMAIN nodes /\ e[2] \in DOMAIN nodes

RECURSIVE Flatten(_)
Flatten(ss) == IF ss = <<>> THEN <<>> ELSE Head(ss) \o Flatten(Tail(ss))

\* C11: the slices remove_purged works through are non-empty, hold at most
\* 100 ids each, and put one after the other are the list it was given; a
\* list of 250 ids is cut into slices of 100, 100 and 50 ids, an empty list
\* into none; when remove_purged returns no id of the list has a nodes row.
C11_Chunking ==
    rp_pc \in {"loop", "raised", "returned"} =>
        LET all == rp_chunks \o rp_slices
        IN  /\ Flatten(all) = rp_purged
            /\ \A i \in 1..Len(all) : Len(all[i]) >= 1 /\ Len(all[i]) <= 100
            /\ rp_purged = <<>> => all = <<>>
            /\ Len(rp_purged) = 250 =>
                  [i \in 1..Len(all) |-> Len(all[i])] = <<100, 100, 50>>
            /\ rp_pc = "returned" =>
                  /\ rp_slices = <<>>
                  /\ Range(rp_purged) \cap DOMAIN nodes = {}

C11_Witness ==
    /\ rp_pc = "returned"
    /\ Len(rp_purged) = 250
    /\ Len(rp_chunks) = 3
    /\ ~rp_retried
    /\ DOMAIN nodes = 251..StoreSize

\* C12: when a store error strikes in chunk k, remove_purged raises with the
\* chunks before k committed and nothing else changed, so that the ids of
\* chunk k and of the later chunks keep their rows; when remove_purged is
\* then called again with the same list and returns, the store is the one a
\* single call without error leaves.
C12_PartialFailure ==
    /\ (rp_fault # 0 /\ ~rp_retried) =>
          /\ rp_pc = "raised"
          /\ Len(rp_chunks) = rp_fault - 1
          /\ Db(State) = Db(PurgeSlices(before, rp_chunks))
          /\ committed = Db(State)
          /\ \A id \in Range(Flatten(rp_slices)) \ Range(Flatten(rp_chunks)) :
                /\ id \in DOMAIN nodes
                /\ nodes[id] = before.nodes[id]
                /\ id \in DOMAIN files
                /\ id \in DOMAIN content
    /\ (rp_retried /\ rp_pc = "returned") =>
          /\ Db(State) = Db(remove_purged(before, rp_purged))
          /\ Range(rp_purged) \cap DOMAIN nodes = {}

C12_Witness ==
    /\ rp_retried
    /\ rp_pc = "returned"
    /\ rp_fault = 2
    /\ Len(rp_chunks) = 3

\* C13: the stamp never decreases; every migration step that init has run
\* through is the step of the version stamped when it started and leaves the
\* stamp one higher; an init that returns on a store that was stamped v < 4
\* has run the steps v, ..., 3 in this order, each once, and leaves the stamp
\* at 4; on a new store, and on a store stamped 4, it has run no step.
C13_MigrationMonotonic ==
    /\ \A i \in 2..Len(in_stamps) : in_stamps[i] >= in_stamps[i - 1]
    /\ \A i \in 1..Len(in_applied) :
          /\ in_applied[i][2] = in_applied[i][1]
          /\ in_applied[i][3] = in_applied[i][1] + 1
    /\ in_pc = "done" =>
          /\ user_version = 4
          /\ in_applied =
                IF in_start.schema = EmptyLayout \/ in_v0 = 4 THEN <<>>
                ELSE [i \in 1..(4 - in_v0) |-> <<in_v0 + i - 1, in_v0 + i - 1, in_v0 + i>>]
          /\ in_v0 < 4 /\ in_applied # <<>> => schema = CurrentLayout

C13_Witness ==
    /\ in_pc = "done"
    /\ in_v0 = 0
    /\ Len(in_applied) = 4
    /\ in_stamps = <<0, 1, 2, 3, 4>>

\* C14: a migration step never raises because part of what it adds is
\* already there: when init raises, a store error has struck the statement.
C14_StepsReapplicable ==
    in_pc = "raised" => in_error # "exists"

\* C15: when a statement of the step from version k fails, init raises with
\* the stamp at k and no later step run, and the layout of the store is the
\* one the step started from.
C15_StepAtomic ==
    in_pc = "raised" =>
        /\ user_version = in_step
        /\ user_version = in_start.version
        /\ \A i \in 1..Len(in_applied) : in_applied[i][1] < in_step
        /\ schema = in_start.schema

\* C16: init goes on to read the version only when create_tables succeeded
\* or failed because the tables exist already.
C16_OnlyExistsSwallowed ==
    in_pc \in {"read", "migrate", "done", "raised"} => in_swallowed \in {None, "exists"}

\* C17: after a set of k to v the row of k holds v, get and __getitem__ of k
\* return v and every other key is as before; a lookup leaves the table as
\* it was, returns the stored value of a present key, and for an absent key
\* get returns its default and __getitem__ raises KeyError; after update
\* every key of the mapping holds the mapping's value and every other key is
\* as before.
C17_KeyValue ==
    /\ kv_last.op = "__setitem__" =>
          /\ kv_last.key \in DOMAIN metadata
          /\ metadata[kv_last.key] = kv_last.value
          /\ \A d \in KvDefaults : get(metadata, kv_last.key, d) = Return(kv_last.value)
          /\ __getitem__(metadata, kv_last.key) = Return(kv_last.value)
          /\ Without(metadata, {kv_last.key}) = Without(kv_prev, {kv_last.key})
    /\ kv_last.op \in {"get", "__getitem__"} =>
          /\ metadata = kv_prev
          /\ kv_last.key \in DOMAIN kv_prev => kv_last.result = Return(kv_prev[kv_last.key])
    /\ (kv_last.op = "get" /\ kv_last.key \notin DOMAIN kv_prev) =>
          kv_last.result = Return(kv_last.default)
    /\ (kv_last.op = "__getitem__" /\ kv_last.key \notin DOMAIN kv_prev) =>
          kv_last.result = Raise("KeyError")
    /\ kv_last.op = "update" =>
          /\ \A k \in DOMAIN kv_last.dict_ :
                k \in DOMAIN metadata /\ metadata[k] = kv_last.dict_[k]
          /\ Without(metadata, DOMAIN kv_last.dict_) = Without(kv_prev, DOMAIN kv_last.dict_)

C17_Witness ==
    /\ kv_last.op = "__setitem__"
    /\ kv_last.key \in DOMAIN kv_prev
    /\ kv_prev[kv_last.key] # kv_last.value
    /\ DOMAIN metadata = KvKeys

HasName(node) == "name" \in DOMAIN node /\ node["name"] # ""
MarkedRoot(node) == "isRoot" \in DOMAIN node /\ node["isRoot"]

\* the nodes C18 says are persisted
Persisted(node) ==
    /\ node["status"] # "PENDING"
    /\ \/ node["kind"] = "FILE" /\ HasName(node)
       \/ node["kind"] = "FOLDER" /\ (HasName(node) \/ MarkedRoot(node))

\* what the store and the node cache hold for an id
Entry(tbl, id) == IF id \in DOMAIN tbl THEN <<tbl[id]>> ELSE <<>>
EntriesOf(st, id) ==
    [nodes |-> Entry(st.nodes, id),
     files |-> Entry(st.files, id),
     content |-> Entry(st.content, id),
     parents |-> [e \in {x \in DOMAIN st.parentage : x[2] = id} |-> st.parentage[e]],
     properties |-> [k \in {x \in DOMAIN st.properties : x[1] = id} |-> st.properties[k]],
     labels |-> {l \in st.labels : l[1] = id},
     cached |-> Entry(st.node_id_to_node_cache, id)]

\* C18: insert_nodes leaves the state that it leaves for the batch without
\* the nodes that are PENDING, files without a name, folders without a name
\* that are not the root, or of another kind; every node that remains has
\* its nodes row written by this call; and an id that only such skipped
\* nodes of the batch carry keeps its rows, its parent edges and its cache
\* entry as they were.
C18_Classification ==
    lastOp.op = "insert_nodes" =>
        LET kept == SelectSeq(lastOp.nodes, Persisted)
            t == now - 1
        IN  /\ State = insert_nodes(before, kept, lastOp.partial, lastOp.flush, t)
            /\ \A i \in 1..Len(kept) :
                  /\ kept[i]["id"] \in DOMAIN nodes
                  /\ nodes[kept[i]["id"]].updated = t
                  /\ \E j \in 1..Len(kept) :
                        /\ kept[j]["id"] = kept[i]["id"]
                        /\ nodes[kept[i]["id"]].status = kept[j]["status"]
            /\ \A id \in IdsOf(lastOp.nodes) \ IdsOf(kept) :
                  EntriesOf(State, id) = EntriesOf(before, id)

C18_Witness ==
    /\ lastOp.op = "insert_nodes"
    /\ lastOp.nodes = <<OtherB, KeptFileA>>
    /\ "b" \in DOMAIN before.content
    /\ "b" \in DOMAIN content
    /\ nodes["a"].type = "file"

ParentsOf(tbl, child) == {e[1] : e \in {x \in DOMAIN tbl : x[2] = child}}

\* C19: between the two blocks of insert_parentage with partial, and after
\* a store error in the second block, the committed store holds no parent
\* edge for any node of the batch, whatever edges the node had before and
\* whatever parents it declares.
C19_ParentlessGap ==
    (ip_partial /\ (ip_pc = "insert" \/ (ip_pc = "raised" /\ ip_fault = "insert"))) =>
        \A child \in IdsOf(ip_nodes) :
            /\ ParentsOf(committed.parentage, child) = {}
            /\ ip_pc = "raised" => ParentsOf(parentage, child) = {}

C19_Witness ==
    /\ ip_partial
    /\ ip_pc = "raised"
    /\ ip_fault = "insert"
    /\ \E i \in 1..Len(ip_nodes) :
          /\ ParentsOf(before.parentage, ip_nodes[i]["id"]) # {}
          /\ ip_nodes[i]["parents"] # <<>>
          /\ ParentsOf(committed.parentage, ip_nodes[i]["id"]) = {}

\* C20: every path of the path map leads to the id of a node that is in the
\* store and AVAILABLE, and insert_nodes without the flush and remove_purged
\* leave the path map as it was.
C20_NoStalePaths ==
    /\ \A p \in DOMAIN path_to_node_id_cache :
          /\ path_to_node_id_cache[p] \in DOMAIN nodes
          /\ nodes[path_to_node_id_cache[p]].status = "AVAILABLE"
    /\ lastOp.op \in {"insert_nodes", "remove_purged"} =>
          path_to_node_id_cache = before.path_to_node_id_cache

====
